---- MODULE Spec2Model ----
(***************************************************************************)
(* Axis: the web service that links a Discord ID to a GitHub account.      *)
(* The model follows src/axis.py: the three request handlers home, github  *)
(* and github_callback, the users collection they write, and the two       *)
(* outbound GitHub calls of the callback.  A handler runs atomically       *)
(* between two awaits, so every await of github_callback is one step.      *)
(*                                                                         *)
(* Strings are sequences of character tokens, dicts are functions whose    *)
(* DOMAIN is the set of keys, and a response body is a sequence of text    *)
(* fragments.  An exception that no handler catches ends the request with  *)
(* the framework's 500 response; exc names the exception.                  *)
(***************************************************************************)
EXTENDS Integers, Sequences, FiniteSets, TLC

\* Number of requests in flight at the same time.
NumReq == 2

Requests == 1..NumReq

\* ------------------------------------------------------------------------
\* Character classes of Python's str: "sup2" is U+00B2 (superscript two),
\* for which str.isnumeric() is True while int() raises ValueError.
DecimalChars == {"0", "1", "2"}

NumericChars == DecimalChars \cup {"sup2"}

\* Values a client can send as the Discord ID (query string or cookie).
IdStrings == { <<>>, <<"1">>, <<"1", "0">>, <<"sup2">>, <<"a">> }

EmptyDict == [k \in {} |-> <<>>]

\* request.cookies of a callback request
CookieJars == {EmptyDict} \cup { [id |-> s] : s \in IdStrings }

\* request.args of a /github request
GithubArgs == {EmptyDict} \cup { [id |-> <<s>>] : s \in {<<"1">>, <<"a">>} }
                  \cup { [id |-> << <<"1", "0">>, <<"1">> >>] }

\* request.args of a /github/callback request
CallbackArgs == { EmptyDict, [code |-> << <<"c0de">> >>] }

\* request.url of a /github request
RequestUrls == { [base |-> "http://axis.example", path |-> "/github"] }

\* Bodies GitHub answers the token exchange with: key=value pairs, the
\* value a sequence of tokens in which "+" encodes a space.
TokenBodies ==
    { <<>>,
      << [k |-> "access_token", v |-> <<"t0k">>] >>,
      << [k |-> "error", v |-> <<"access_denied">>],
         [k |-> "error_description", v |-> <<"User", "+", "denied">>] >>,
      << [k |-> "error", v |-> <<"access_denied">>] >>,
      << [k |-> "error", v |-> <<"access_denied">>],
         [k |-> "error_description", v |-> <<>>] >>,
      << [k |-> "error", v |-> <<"bad">>],
         [k |-> "error_description", v |-> <<"first">>],
         [k |-> "error_description", v |-> <<"second">>],
         [k |-> "access_token", v |-> <<"t0k">>] >> }

\* Statuses and JSON documents GitHub answers the profile request with.
ProfileStatuses == {200, 401}

Logins == {"octocat", "octocat2"}

ProfileJsons == { [login |-> l] : l \in Logins } \cup { [name |-> "Octo"] }

\* Discord IDs that may already be linked when the service starts, each to
\* the account FirstLogin.
StoredIds == {1, 10}

FirstLogin == "octocat"

\* ------------------------------------------------------------------------
\* Python built-ins and library functions the handlers call.

\* str.isnumeric(): non-empty and every character numeric.
isnumeric(s) == Len(s) > 0 /\ \A i \in DOMAIN s : s[i] \in NumericChars

\* int(s) raises ValueError unless s is a non-empty run of decimal digits
\* (the alphabet has no sign, blank or underscore).
IntRaises(s) == Len(s) = 0 \/ \E i \in DOMAIN s : s[i] \notin DecimalChars

DigitValue(c) == CASE c = "0" -> 0 [] c = "1" -> 1 [] c = "2" -> 2

RECURSIVE int(_)
int(s) ==
    IF Len(s) = 0 THEN 0
    ELSE 10 * int(SubSeq(s, 1, Len(s) - 1)) + DigitValue(s[Len(s)])

\* urllib.parse.unquote_plus on one value: "+" decodes to a space.
unquote(v) == [i \in DOMAIN v |-> IF v[i] = "+" THEN " " ELSE v[i]]

\* urllib.parse.parse_qs: key -> list of decoded values in body order;
\* a pair with a blank value is dropped.
parse_qs(body) ==
    LET kept(k) == SelectSeq(body, LAMBDA p : p.k = k /\ p.v # <<>>)
        keys    == { body[i].k : i \in { j \in DOMAIN body : body[j].v # <<>> } }
    IN  [k \in keys |-> [i \in DOMAIN kept(k) |-> unquote(kept(k)[i].v)]]

\* tools.parse_url: scheme and host of the request URL.
parse_url(url) == url.base

\* ------------------------------------------------------------------------
\* The users collection: a set of documents; MongoDB keeps _id unique.

find_one(coll, id) ==
    IF \E d \in coll : d._id = id
    THEN LET d == CHOOSE d \in coll : d._id = id IN [_id |-> d._id, github |-> d.github]
    ELSE EmptyDict

update_one(coll, id, login) ==
    IF \E d \in coll : d._id = id
    THEN LET hit == CHOOSE d \in coll : d._id = id
         IN  (coll \ {hit}) \cup {[hit EXCEPT !.github = login]}
    ELSE coll

InsertRaises(coll, doc) == \E d \in coll : d._id = doc._id

\* insert_one with the document filed under a key the store does not keep
\* unique.
insert_one_unkeyed(coll, doc) == coll \cup {doc}

insert_one(coll, doc) == IF InsertRaises(coll, doc) THEN coll ELSE coll \cup {doc}

\* ------------------------------------------------------------------------
\* Responses.

NoResponse == [status |-> 0, body |-> <<>>, location |-> <<>>, cookies |-> EmptyDict]

text(body, status) == [NoResponse EXCEPT !.status = status, !.body = body]

redirect(to, status) == [NoResponse EXCEPT !.status = status, !.location = to]

\* The framework's answer to an exception no handler catches.
ServerError == text(<<"Internal Server Error">>, 500)

AUTH_GITHUB(client, callback) == <<"https://github.com/login/oauth/authorize", client, callback>>

CODE_GITHUB(client, secret, code) ==
    <<"https://github.com/login/oauth/access_token", client, secret, code>>

EnvValues == [GITHUB_CLIENT |-> "client-id", GITHUB_SECRET |-> "client-secret",
              MONGO_URL |-> "mongodb://db"]

Environments ==
    { [k \in S \cup {"MONGO_URL"} |-> EnvValues[k]] :
        S \in SUBSET {"GITHUB_CLIENT", "GITHUB_SECRET"} }

NoUrl == [base |-> "", path |-> ""]

\* environ: os.environ; COLLECTION: the users collection; req: per request,
\* the handler's position (pc), its inputs (args, cookies, request_url), its
\* locals (url, params, headers, profile = resp.status, json, _id, found),
\* its outcome (response, exc), the external calls it has issued in order
\* (calls), and whether no other callback for the same Discord ID has been
\* in flight during its lifetime (alone).
VARIABLES environ, COLLECTION, req

vars == <<environ, COLLECTION, req>>

Idle ==
    [pc |-> "idle", handler |-> "none", args |-> EmptyDict, cookies |-> EmptyDict,
     request_url |-> NoUrl, url |-> <<>>, params |-> EmptyDict, headers |-> <<>>,
     profile |-> 0,
     json |-> EmptyDict, _id |-> -1, found |-> EmptyDict,
     response |-> NoResponse, exc |-> "", calls |-> <<>>, alone |-> TRUE]

Init ==
    /\ environ \in Environments
    /\ COLLECTION \in { { [_id |-> i, github |-> FirstLogin] : i \in S } :
                         S \in SUBSET StoredIds }
    /\ req = [r \in Requests |-> Idle]

\* ------------------------------------------------------------------------
\* Handlers.

Respond(q, resp) == [q EXCEPT !.pc = "done", !.response = resp]

Raise(q, name) == [q EXCEPT !.pc = "done", !.exc = name, !.response = ServerError]

Unconfigured(env) ==
    "GITHUB_CLIENT" \notin DOMAIN env \/ "GITHUB_SECRET" \notin DOMAIN env

\* home: the fixed redirect.
home == redirect(<<"https://github.com/ChomusukeBot">>, 302)

\* github with its two guards in the other order.
github_id_first(env, args, request_url) ==
    IF "id" \notin DOMAIN args
    THEN text(<<"The Discord ID was not specified">>, 400)
    ELSE IF Unconfigured(env)
    THEN text(<<"GitHub is not supported at this time.">>, 503)
    ELSE LET callback == <<parse_url(request_url), "/github/callback">>
             response == redirect(AUTH_GITHUB(env["GITHUB_CLIENT"], callback), 301)
         IN  [response EXCEPT !.cookies = [id |-> args["id"][1]]]

\* github: the response of /github.
github(env, args, request_url) ==
    IF Unconfigured(env)
    THEN text(<<"GitHub is not supported at this time.">>, 503)
    ELSE IF "id" \notin DOMAIN args
    THEN text(<<"The Discord ID was not specified">>, 400)
    ELSE LET callback == <<parse_url(request_url), "/github/callback">>
             response == redirect(AUTH_GITHUB(env["GITHUB_CLIENT"], callback), 301)
         IN  [response EXCEPT !.cookies = [id |-> args["id"][1]]]

\* github_callback up to its first await: the four guards, in order.
\* NoResponse when all of them pass.
callback_guards(env, cookies, args) ==
    IF Unconfigured(env)
    THEN text(<<"GitHub is not supported at this time.">>, 503)
    ELSE IF "id" \notin DOMAIN cookies
    THEN text(<<"No Discord ID present on cookies.">>, 400)
    ELSE IF ~isnumeric(cookies["id"])
    THEN text(<<"The Discord ID is not numeric.">>, 400)
    ELSE IF "code" \notin DOMAIN args
    THEN text(<<"There is no GitHub code.">>, 400)
    ELSE NoResponse

\* github_callback resumed with the body of the token exchange.
after_token(q, body) ==
    LET params == parse_qs(body)
        p      == [q EXCEPT !.params = params]
    IN  IF "error" \in DOMAIN params
        THEN IF "error_description" \in DOMAIN params
             THEN Respond(p, text(params["error_description"][1], 400))
             ELSE Raise(p, "KeyError")
        ELSE IF "access_token" \notin DOMAIN params
        THEN Raise(p, "KeyError")
        ELSE [p EXCEPT !.headers = <<"token", params["access_token"][1]>>,
                       !.pc = "profile",
                       !.calls = Append(@, "profile")]

\* after_profile answering a failed profile request with a fixed 400.
after_profile_fixed_status(q, status, json) ==
    LET p == [q EXCEPT !.profile = status]
    IN  IF status # 200
        THEN Respond(p, text(<<"An error has ocurred while fetching your data.">>, 400))
        ELSE LET j == [p EXCEPT !.json = json]
             IN  IF IntRaises(q.cookies["id"])
                 THEN Raise(j, "ValueError")
                 ELSE [j EXCEPT !._id = int(q.cookies["id"]),
                                !.pc = "find",
                                !.calls = Append(@, "find_one")]

\* after_profile without the test of resp.status.
after_profile_unchecked(q, status, json) ==
    LET j == [q EXCEPT !.profile = status, !.json = json]
    IN  IF IntRaises(q.cookies["id"])
        THEN Raise(j, "ValueError")
        ELSE [j EXCEPT !._id = int(q.cookies["id"]),
                       !.pc = "find",
                       !.calls = Append(@, "find_one")]

\* github_callback resumed with the answer of the profile request.
after_profile(q, status, json) ==
    LET p == [q EXCEPT !.profile = status]
    IN  IF status # 200
        THEN Respond(p, text(<<"An error has ocurred while fetching your data.">>, status))
        ELSE LET j == [p EXCEPT !.json = json]
             IN  IF IntRaises(q.cookies["id"])
                 THEN Raise(j, "ValueError")
                 ELSE [j EXCEPT !._id = int(q.cookies["id"]),
                                !.pc = "find",
                                !.calls = Append(@, "find_one")]

\* github_callback resumed with the result of find_one: json["login"] is
\* evaluated, then the update or the insert is issued.
after_find(q, coll) ==
    LET found == find_one(coll, q._id)
        p     == [q EXCEPT !.found = found]
    IN  IF "login" \notin DOMAIN q.json
        THEN Raise(p, "KeyError")
        ELSE [p EXCEPT !.pc = "write",
                       !.calls = Append(@, IF found # EmptyDict THEN "update_one"
                                                                ELSE "insert_one")]

\* written with the update branch lost: the insert is issued either way.
written_insert_only(q, coll) ==
    insert_one(coll, [_id |-> q._id, github |-> q.json["login"]])

\* The collection after the write github_callback has issued.
written(q, coll) ==
    IF q.found # EmptyDict
    THEN update_one(coll, q._id, q.json["login"])
    ELSE insert_one(coll, [_id |-> q._id, github |-> q.json["login"]])

\* after_write with the failure of the insert swallowed.
after_write_swallowed(q, coll) ==
    Respond(q, text(<<"Done! The GitHub account ", q.json["login"],
                      " is now linked with Discord.">>, 200))

\* github_callback resumed after its write.
after_write(q, coll) ==
    IF q.found = EmptyDict
       /\ InsertRaises(coll, [_id |-> q._id, github |-> q.json["login"]])
    THEN Raise(q, "DuplicateKeyError")
    ELSE Respond(q, text(<<"Done! The GitHub account ", q.json["login"],
                           " is now linked with Discord.">>, 200))

\* ------------------------------------------------------------------------
\* Steps.

InFlight(q) == q.pc \in {"token", "profile", "find", "write"}

SameKey(a, b) == ~IntRaises(a) /\ ~IntRaises(b) /\ int(a) = int(b)

Home(r) ==
    /\ req[r].pc = "idle"
    /\ req' = [req EXCEPT ![r] = Respond([@ EXCEPT !.handler = "home"], home)]
    /\ UNCHANGED <<environ, COLLECTION>>

Github(r) ==
    /\ req[r].pc = "idle"
    /\ \E args \in GithubArgs, u \in RequestUrls :
         req' = [req EXCEPT ![r] =
                    Respond([@ EXCEPT !.handler = "github", !.args = args,
                                      !.request_url = u],
                            github(environ, args, u))]
    /\ UNCHANGED <<environ, COLLECTION>>

CallbackBegin(r) ==
    /\ req[r].pc = "idle"
    /\ \E cookies \in CookieJars, args \in CallbackArgs :
         LET q     == [req[r] EXCEPT !.handler = "callback", !.args = args,
                                     !.cookies = cookies]
             early == callback_guards(environ, cookies, args)
             rivals == { o \in Requests \ {r} :
                           /\ InFlight(req[o])
                           /\ SameKey(req[o].cookies["id"], cookies["id"]) }
         IN  IF early # NoResponse
             THEN req' = [req EXCEPT ![r] = Respond(q, early)]
             ELSE req' = [o \in Requests |->
                            IF o = r
                            THEN [q EXCEPT !.pc = "token",
                                           !.url = CODE_GITHUB(environ["GITHUB_CLIENT"],
                                                               environ["GITHUB_SECRET"],
                                                               args["code"][1]),
                                           !.calls = <<"token">>,
                                           !.alone = (rivals = {})]
                            ELSE IF o \in rivals
                            THEN [req[o] EXCEPT !.alone = FALSE]
                            ELSE req[o]]
    /\ UNCHANGED <<environ, COLLECTION>>

TokenResponse(r) ==
    /\ req[r].pc = "token"
    /\ \E body \in TokenBodies : req' = [req EXCEPT ![r] = after_token(@, body)]
    /\ UNCHANGED <<environ, COLLECTION>>

ProfileResponse(r) ==
    /\ req[r].pc = "profile"
    /\ \E status \in ProfileStatuses, json \in ProfileJsons :
         req' = [req EXCEPT ![r] = after_profile(@, status, json)]
    /\ UNCHANGED <<environ, COLLECTION>>

FindOne(r) ==
    /\ req[r].pc = "find"
    /\ req' = [req EXCEPT ![r] = after_find(@, COLLECTION)]
    /\ UNCHANGED <<environ, COLLECTION>>

Write(r) ==
    /\ req[r].pc = "write"
    /\ COLLECTION' = written(req[r], COLLECTION)
    /\ req' = [req EXCEPT ![r] = after_write(@, COLLECTION)]
    /\ UNCHANGED environ

Next ==
    \E r \in Requests :
        \/ Home(r)
        \/ Github(r)
        \/ CallbackBegin(r)
        \/ TokenResponse(r)
        \/ ProfileResponse(r)
        \/ FindOne(r)
        \/ Write(r)

Spec == Init /\ [][Next]_vars

\* ------------------------------------------------------------------------
\* Properties.

Callbacks == { r \in Requests : req[r].handler = "callback" }

\* A valid non-negative integer string: a non-empty run of decimal digits.
IsIntegerString(s) == Len(s) > 0 /\ \A i \in DOMAIN s : s[i] \in DecimalChars

StoreCalls == {"find_one", "update_one", "insert_one"}

WriteCalls == {"update_one", "insert_one"}

Issued(q, ops) == \E i \in DOMAIN q.calls : q.calls[i] \in ops

RecordsOf(coll, id) == { d \in coll : d._id = id }

\* Request r has answered after issuing the write op.
Wrote(r, op) == req[r].pc = "done" /\ Len(req[r].calls) = 4 /\ req[r].calls[4] = op

\* C1: when one of the four preconditions of the callback fails (credentials
\* configured, identifier cookie present, cookie a valid non-negative integer
\* string, code present), the response is that of the earliest failing one
\* and the request makes no outbound call and no document-store call.
C1_GuardsInOrder ==
    \A r \in Callbacks :
        LET q          == req[r]
            configured == ~Unconfigured(environ)
            present    == "id" \in DOMAIN q.cookies
            valid      == present /\ IsIntegerString(q.cookies["id"])
            coded      == "code" \in DOMAIN q.args
            expected   ==
                IF ~configured THEN text(<<"GitHub is not supported at this time.">>, 503)
                ELSE IF ~present THEN text(<<"No Discord ID present on cookies.">>, 400)
                ELSE IF ~valid THEN text(<<"The Discord ID is not numeric.">>, 400)
                ELSE text(<<"There is no GitHub code.">>, 400)
        IN  (~configured \/ ~present \/ ~valid \/ ~coded)
                => /\ q.pc = "done"
                   /\ q.response = expected
                   /\ q.calls = <<>>

\* C2: /github answers 503 when the client id or the secret is missing,
\* whatever the query; else 400 without a cookie when the id parameter is
\* missing; else 301 to the authorize URL with the id cookie set to the
\* supplied value.  It makes no outbound call and leaves the collection alone.
C2_Initiate ==
    [][ \A r \in Requests :
          (req[r].pc = "idle" /\ req'[r].handler = "github")
              => LET q == req'[r]
                 IN  /\ q.pc = "done"
                     /\ q.exc = ""
                     /\ q.calls = <<>>
                     /\ COLLECTION' = COLLECTION
                     /\ IF Unconfigured(environ)
                        THEN q.response.status = 503 /\ q.response.cookies = EmptyDict
                        ELSE IF "id" \notin DOMAIN q.args
                        THEN q.response.status = 400 /\ q.response.cookies = EmptyDict
                        ELSE /\ q.response.status = 301
                             /\ q.response.location[1] = "https://github.com/login/oauth/authorize"
                             /\ q.response.location[2] = environ["GITHUB_CLIENT"]
                             /\ q.response.cookies = [id |-> q.args["id"][1]] ]_vars

C2_Witness ==
    \E r \in Requests :
        /\ req[r].handler = "github"
        /\ req[r].pc = "done"
        /\ req[r].response.status = 301
        /\ Len(req[r].args["id"]) = 2
        /\ req[r].response.cookies = [id |-> <<"1", "0">>]

\* C3: a callback whose id cookie is present but is no valid non-negative
\* integer string is answered 400 "not numeric" and writes nothing; and every
\* cookie that passes the check converts to the numeric ID of step D.
C3_InvalidIdRejected ==
    \A r \in Callbacks :
        LET q == req[r]
        IN  (~Unconfigured(environ) /\ "id" \in DOMAIN q.cookies)
                => /\ ~IsIntegerString(q.cookies["id"])
                        => /\ q.pc = "done"
                           /\ q.response = text(<<"The Discord ID is not numeric.">>, 400)
                           /\ ~Issued(q, WriteCalls)
                   /\ (q.calls # <<>> \/ q.response.body = <<"There is no GitHub code.">>)
                        => ~IntRaises(q.cookies["id"])

\* C4: when the decoded body of the token exchange has an error key, whatever
\* else it has, the callback answers 400 with the provider's error_description
\* and calls neither the profile endpoint nor the document store.
C4_ExchangeRejected ==
    \A r \in Callbacks :
        LET q == req[r]
        IN  "error" \in DOMAIN q.params
                => /\ q.pc = "done"
                   /\ q.response.status = 400
                   /\ "error_description" \in DOMAIN q.params
                   /\ q.response.body = q.params["error_description"][1]
                   /\ q.calls = <<"token">>

\* C5: when the profile endpoint answers with a status other than 200, the
\* callback answers with that status, and the document store is neither read
\* nor written: the collection is unchanged.
C5_ProfileFetchFailed ==
    [][ \A r \in Requests :
          (req[r].pc = "profile" /\ req'[r].pc # "profile" /\ req'[r].profile # 200)
              => /\ req'[r].pc = "done"
                 /\ req'[r].exc = ""
                 /\ req'[r].response.status = req'[r].profile
                 /\ req'[r].calls = <<"token", "profile">>
                 /\ COLLECTION' = COLLECTION ]_vars

C5_Witness ==
    \E r \in Requests :
        /\ req[r].pc = "done"
        /\ req[r].profile = 401
        /\ req[r].response.status = 401
        /\ ~IntRaises(req[r].cookies["id"])

\* C6: a callback for ID i that runs alone and reaches its write with login L
\* answers 200 naming L and leaves exactly one record for i, holding L:
\* inserted when there was none, overwritten when there was one.  The records
\* of the other IDs are unchanged, and a store that already links i to L is
\* left as it is.
C6_UpsertAlone ==
    [][ \A r \in Requests :
          (req[r].pc = "write" /\ req'[r].pc = "done" /\ req[r].alone)
              => LET i      == req[r]._id
                     L      == req[r].json["login"]
                     linked == [_id |-> i, github |-> L]
                 IN  /\ req'[r].response.status = 200
                     /\ req'[r].response.body[2] = L
                     /\ RecordsOf(COLLECTION', i) = {linked}
                     /\ COLLECTION' \ {linked} = COLLECTION \ RecordsOf(COLLECTION, i)
                     /\ Cardinality(COLLECTION') =
                            IF RecordsOf(COLLECTION, i) = {}
                            THEN Cardinality(COLLECTION) + 1
                            ELSE Cardinality(COLLECTION)
                     /\ (linked \in COLLECTION => COLLECTION' = COLLECTION) ]_vars

C6_Witness ==
    \E r1, r2 \in Requests :
        /\ Wrote(r1, "insert_one") /\ Wrote(r2, "update_one")
        /\ req[r1].alone /\ req[r2].alone
        /\ req[r1]._id = 10 /\ req[r2]._id = 10
        /\ req[r1].response.status = 200 /\ req[r2].response.status = 200
        /\ req[r1].json["login"] = "octocat" /\ req[r2].json["login"] = "octocat2"
        /\ req[r2].found = [_id |-> 10, github |-> "octocat"]
        /\ RecordsOf(COLLECTION, 10) = {[_id |-> 10, github |-> "octocat2"]}

UniqueIds(coll) == \A d1, d2 \in coll : d1._id = d2._id => d1 = d2

\* C7: whatever the interleaving of requests, the collection never holds two
\* records for one ID, and an ID that has a record keeps having one.
C7_OneRecordPerId ==
    /\ [] UniqueIds(COLLECTION)
    /\ [][ { d._id : d \in COLLECTION } \subseteq { d._id : d \in COLLECTION' } ]_vars

C7_Witness ==
    \E r1, r2 \in Requests :
        /\ r1 # r2
        /\ Wrote(r1, "insert_one") /\ Wrote(r2, "insert_one")
        /\ req[r1]._id = 1 /\ req[r2]._id = 1
        /\ req[r1].json # req[r2].json
        /\ Cardinality(RecordsOf(COLLECTION, 1)) = 1

Inserters(id) ==
    { r \in Requests : Wrote(r, "insert_one") /\ req[r]._id = id }

\* C8: nothing serialises the lookup and the write.  Of the callbacks for one
\* ID that all found no record and all issued the insert, at most one is
\* answered 200; every other one ends with the store's duplicate-key failure
\* instead of an update.
C8_RaceLoses ==
    \A id \in StoredIds :
        /\ \A r \in Inserters(id) :
              \/ req[r].response.status = 200 /\ req[r].exc = ""
              \/ req[r].response.status = 500 /\ req[r].exc = "DuplicateKeyError"
        /\ Cardinality({ r \in Inserters(id) : req[r].response.status = 200 }) <= 1

C8_Witness ==
    \E r1, r2 \in Inserters(1) :
        /\ req[r1].found = EmptyDict /\ req[r2].found = EmptyDict
        /\ req[r1].response.status = 200
        /\ req[r2].exc = "DuplicateKeyError"
        /\ req[r2].json["login"] = "octocat2"
        /\ COLLECTION = {[_id |-> 1, github |-> "octocat"]}

CallOrder == << {"token"}, {"profile"}, {"find_one"}, WriteCalls >>

\* C9: a callback issues its external calls in the order token exchange,
\* profile, lookup, write, each at most once: the profile call only after a
\* token exchange without error, the lookup only after a 200 profile, one
\* write (update or insert) only after the lookup; and a request that has
\* answered issues nothing more.
C9_CallsInOrder ==
    /\ [] \A r \in Requests :
            LET q == req[r]
            IN  /\ Len(q.calls) <= 4
                /\ \A i \in DOMAIN q.calls : q.calls[i] \in CallOrder[i]
                /\ Len(q.calls) >= 2
                      => "error" \notin DOMAIN q.params /\ "access_token" \in DOMAIN q.params
                /\ Len(q.calls) >= 3 => q.profile = 200
                /\ (q.pc = "done" /\ Len(q.calls) < 4) => q.response.status # 200
    /\ [][ \A r \in Requests :
             /\ req[r].pc = "done" => req'[r] = req[r]
             /\ \/ req'[r].calls = req[r].calls
                \/ Len(req'[r].calls) = Len(req[r].calls) + 1 ]_vars

C9_Witness ==
    \E r \in Requests :
        /\ req[r].pc = "done"
        /\ req[r].response.status = 200
        /\ req[r].calls = <<"token", "profile", "find_one", "update_one">>

\* C10: every callback ends with a response of the taxonomy (200, 400, 503
\* or the forwarded profile status) and never with a failure nothing handles.
C10_TaxonomyOnly ==
    \A r \in Callbacks :
        req[r].pc = "done"
            => /\ req[r].exc = ""
               /\ req[r].response.status \in {200, 400, 503, req[r].profile}

====
